---------------------------- MODULE Spec2Model ----------------------------
(***************************************************************************)
(* A model of package_resources.py: the lookup of a resource of a package  *)
(* in its unpacked directory and its two archives, the listing of a        *)
(* package's files, the listing of the packages, and the path codec.       *)
(*                                                                         *)
(* Strings are sequences of one-character strings, so that the string      *)
(* operations of the source (replace, startswith, endswith, split, the     *)
(* regular expressions, os.path.normpath) are computed, not assumed.       *)
(***************************************************************************)
EXTENDS Integers, Sequences, FiniteSets

VARIABLES
    platform,         \* "posix" or "nt": which os.path the host runs
    VERSION,          \* int(sublime.version())
    pkgDir,           \* the package's unpacked directory: [exists, files]
    instZip,          \* <package>.sublime-package under the installed root: [exists, names]
    sysZip,           \* <package>.sublime-package beside the executable: [exists, names]
    walkOrder,        \* the order in which the host lists the entries of a directory
    rootEntries,      \* os.listdir of the three roots: [pk, inst, sys]
    ignoredPackages,  \* the host setting "ignored_packages"
    call,             \* the last call: its name and arguments
    ret               \* what the last call returned or raised

vars == <<platform, VERSION, pkgDir, instZip, sysZip, walkOrder, rootEntries,
          ignoredPackages, call, ret>>

----------------------------------------------------------------------------
(* Characters and strings *)

SEP_POSIX == "/"
SEP_NT == "\\"

Sep(pf) == IF pf = "nt" THEN SEP_NT ELSE SEP_POSIX

Letters ==
    {"a","b","c","d","e","f","g","h","i","j","k","l","m","n","o","p","q","r",
     "s","t","u","v","w","x","y","z",
     "A","B","C","D","E","F","G","H","I","J","K","L","M","N","O","P","Q","R",
     "S","T","U","V","W","X","Y","Z"}

\* The characters the model uses, in the order of their code points.
CharOrder ==
    <<" ", "-", ".", "/", ":", "A", "B", "C", "D", "I", "P", "Q", "\\",
      "a", "b", "c", "d", "e", "g", "i", "k", "l", "m", "n", "o", "p", "s",
      "t", "u", "x", "y">>

Ord(c) == CHOOSE i \in 1..Len(CharOrder) : CharOrder[i] = c

RECURSIVE StrLess(_, _)
StrLess(s, t) ==
    IF t = <<>> THEN FALSE
    ELSE IF s = <<>> THEN TRUE
    ELSE IF Head(s) = Head(t) THEN StrLess(Tail(s), Tail(t))
    ELSE Ord(Head(s)) < Ord(Head(t))

StartsWith(s, p) == Len(p) <= Len(s) /\ SubSeq(s, 1, Len(p)) = p

EndsWith(s, p) == Len(p) <= Len(s) /\ SubSeq(s, Len(s) - Len(p) + 1, Len(s)) = p

DropFirst(s, n) == SubSeq(s, n + 1, Len(s))

\* s[a-1:b] of Python, counted from 1: the part that exists.
Slice(s, a, b) ==
    IF a > Len(s) \/ a > b THEN <<>>
    ELSE SubSeq(s, a, IF b > Len(s) THEN Len(s) ELSE b)

\* str.find(p, start): the first index >= i at which p occurs in s, or 0.
FindFrom(s, p, i) ==
    LET hits == {j \in i..(Len(s) - Len(p) + 1) : SubSeq(s, j, j + Len(p) - 1) = p}
    IN  IF hits = {} THEN 0 ELSE CHOOSE j \in hits : \A k \in hits : j <= k

\* str.replace(old, new): every occurrence, left to right, not overlapping.
RECURSIVE Replace(_, _, _)
Replace(s, old, new) ==
    IF old = <<>>
    THEN IF s = <<>> THEN new ELSE new \o <<Head(s)>> \o Replace(Tail(s), old, new)
    ELSE LET j == FindFrom(s, old, 1)
         IN  IF j = 0 THEN s
             ELSE SubSeq(s, 1, j - 1) \o new \o Replace(DropFirst(s, j + Len(old) - 1), old, new)

\* str.split(c): the components between the occurrences of the character c.
RECURSIVE SplitOn(_, _)
SplitOn(s, c) ==
    LET j == FindFrom(s, <<c>>, 1)
    IN  IF j = 0 THEN <<s>>
        ELSE <<SubSeq(s, 1, j - 1)>> \o SplitOn(DropFirst(s, j), c)

\* re.split(r"/", s, 1): split at the first "/" only.
SplitFirst(s) ==
    LET j == FindFrom(s, <<"/">>, 1)
    IN  IF j = 0 THEN <<s>> ELSE <<SubSeq(s, 1, j - 1), DropFirst(s, j)>>

\* c.join(comps)
RECURSIVE JoinWith(_, _)
JoinWith(comps, c) ==
    IF comps = <<>> THEN <<>>
    ELSE IF Len(comps) = 1 THEN comps[1]
    ELSE comps[1] \o <<c>> \o JoinWith(Tail(comps), c)

\* str.lstrip(c)
RECURSIVE LStrip(_, _)
LStrip(s, c) == IF s # <<>> /\ Head(s) = c THEN LStrip(Tail(s), c) ELSE s

MapChar(s, from, to) == [i \in 1..Len(s) |-> IF s[i] = from THEN to ELSE s[i]]

----------------------------------------------------------------------------
(* os.path.normpath, as posixpath and as ntpath compute it *)

RECURSIVE PosixComps(_, _, _)
PosixComps(comps, acc, initial) ==
    IF comps = <<>> THEN acc
    ELSE LET comp == Head(comps)
             rest == Tail(comps)
         IN  IF comp = <<>> \/ comp = <<".">> THEN PosixComps(rest, acc, initial)
             ELSE IF \/ comp # <<".", ".">>
                     \/ (initial = 0 /\ acc = <<>>)
                     \/ (acc # <<>> /\ acc[Len(acc)] = <<".", ".">>)
                  THEN PosixComps(rest, Append(acc, comp), initial)
                  ELSE IF acc # <<>>
                       THEN PosixComps(rest, SubSeq(acc, 1, Len(acc) - 1), initial)
                       ELSE PosixComps(rest, acc, initial)

PosixNormpath(path) ==
    IF path = <<>> THEN <<".">>
    ELSE LET initial == IF ~StartsWith(path, <<"/">>) THEN 0
                        ELSE IF StartsWith(path, <<"/", "/">>) /\ ~StartsWith(path, <<"/", "/", "/">>)
                             THEN 2 ELSE 1
             body == JoinWith(PosixComps(SplitOn(path, "/"), <<>>, initial), "/")
             out == [i \in 1..initial |-> "/"] \o body
         IN  IF out = <<>> THEN <<".">> ELSE out

\* ntpath.splitdrive: <<drive or UNC share, rest>>
NtSplitdrive(p) ==
    IF Len(p) < 2 THEN <<<<>>, p>>
    ELSE LET normp == MapChar(p, "/", "\\")
         IN  IF Slice(normp, 1, 2) = <<"\\", "\\">> /\ Slice(normp, 3, 3) # <<"\\">>
             THEN LET index == FindFrom(normp, <<"\\">>, 3)
                  IN  IF index = 0 THEN <<<<>>, p>>
                      ELSE LET index2 == FindFrom(normp, <<"\\">>, index + 1)
                           IN  IF index2 = index + 1 THEN <<<<>>, p>>
                               ELSE IF index2 = 0 THEN <<p, <<>>>>
                               ELSE <<SubSeq(p, 1, index2 - 1), DropFirst(p, index2 - 1)>>
             ELSE IF normp[2] = ":" THEN <<SubSeq(p, 1, 2), DropFirst(p, 2)>>
             ELSE <<<<>>, p>>

\* The while loop of ntpath.normpath over the components, i counted from 1.
RECURSIVE NtComps(_, _, _)
NtComps(comps, i, rooted) ==
    IF i > Len(comps) THEN comps
    ELSE LET without(a, b) == SubSeq(comps, 1, a - 1) \o SubSeq(comps, b + 1, Len(comps))
         IN  IF comps[i] = <<>> \/ comps[i] = <<".">>
             THEN NtComps(without(i, i), i, rooted)
             ELSE IF comps[i] = <<".", ".">>
                  THEN IF i > 1 /\ comps[i - 1] # <<".", ".">>
                       THEN NtComps(without(i - 1, i), i - 1, rooted)
                       ELSE IF i = 1 /\ rooted
                            THEN NtComps(without(i, i), i, rooted)
                            ELSE NtComps(comps, i + 1, rooted)
                  ELSE NtComps(comps, i + 1, rooted)

NtNormpath(path) ==
    IF StartsWith(path, <<"\\", "\\", ".", "\\">>) \/ StartsWith(path, <<"\\", "\\", "?", "\\">>)
    THEN path
    ELSE LET p1 == MapChar(path, "/", "\\")
             sd == NtSplitdrive(p1)
             rooted == StartsWith(sd[2], <<"\\">>)
             prefix == IF rooted THEN sd[1] \o <<"\\">> ELSE sd[1]
             rest == IF rooted THEN LStrip(sd[2], "\\") ELSE sd[2]
             comps == NtComps(SplitOn(rest, "\\"), 1, EndsWith(prefix, <<"\\">>))
         IN  IF prefix = <<>> /\ comps = <<>> THEN <<".">>
             ELSE prefix \o JoinWith(comps, "\\")

Normpath(pf, path) == IF pf = "nt" THEN NtNormpath(path) ELSE PosixNormpath(path)

\* re.sub(r"^([a-zA-Z]):", "/\\1", path)
DriveToSlash(path) ==
    IF Len(path) >= 2 /\ path[1] \in Letters /\ path[2] = ":"
    THEN <<"/", path[1]>> \o DropFirst(path, 2)
    ELSE path

\* normpath, the drive letter to a leading slash, backslashes to slashes.
_normalize_to_sublime_path(pf, path) ==
    MapChar(DriveToSlash(Normpath(pf, path)), "\\", "/")

----------------------------------------------------------------------------
(* The host: sublime.version(), the three paths it reports, os.path *)

Platforms == {"posix", "nt"}

\* Below the archive tiers, with the archive tiers, and with load_resource.
Versions == {3005, 3013, 3014}

NoneVal == <<"None">>

SUBLIME_PACKAGE == <<".", "s", "u", "b", "l", "i", "m", "e", "-", "p", "a", "c", "k", "a", "g", "e">>

PACKAGES == <<"P", "a", "c", "k", "a", "g", "e", "s">>

\* sublime.packages_path()
PackagesPath(pf) ==
    IF pf = "nt" THEN <<"C", ":", "\\", "d", "\\">> \o PACKAGES
    ELSE <<"/", "d", "/">> \o PACKAGES

\* sublime.installed_packages_path()
InstalledPackagesPath(pf) ==
    IF pf = "nt" THEN <<"C", ":", "\\", "d", "\\", "I", "n", "s", "t">>
    ELSE <<"/", "d", "/", "I", "n", "s", "t">>

\* sublime.executable_path()
ExecutablePath(pf) ==
    IF pf = "nt" THEN <<"C", ":", "\\", "o", "\\", "s", "t">>
    ELSE <<"/", "o", "/", "s", "t">>

IsSep(pf, c) == IF pf = "nt" THEN c \in {"/", "\\"} ELSE c = "/"

RECURSIVE RStripSeps(_, _)
RStripSeps(pf, s) ==
    IF s # <<>> /\ IsSep(pf, s[Len(s)]) THEN RStripSeps(pf, SubSeq(s, 1, Len(s) - 1)) ELSE s

\* The index of the last separator of s, or 0.
LastSep(pf, s) ==
    LET hits == {j \in 1..Len(s) : IsSep(pf, s[j])}
    IN  IF hits = {} THEN 0 ELSE CHOOSE j \in hits : \A k \in hits : k <= j

\* os.path.split
PathSplit(pf, path) ==
    LET sd == IF pf = "nt" THEN NtSplitdrive(path) ELSE <<<<>>, path>>
        i == LastSep(pf, sd[2])
        head == SubSeq(sd[2], 1, i)
        stripped == IF RStripSeps(pf, head) = <<>> THEN head ELSE RStripSeps(pf, head)
    IN  <<sd[1] \o stripped, DropFirst(sd[2], i)>>

\* os.path.dirname
Dirname(pf, path) == PathSplit(pf, path)[1]

\* os.path.isabs
IsAbs(pf, path) ==
    LET rest == IF pf = "nt" THEN NtSplitdrive(path)[2] ELSE path
    IN  rest # <<>> /\ IsSep(pf, rest[1])

\* os.path.dirname(sublime.executable_path()) + os.sep + "Packages"
ExecutablePackagesPath(pf) == Dirname(pf, ExecutablePath(pf)) \o <<Sep(pf)>> \o PACKAGES

----------------------------------------------------------------------------
(* get_package_and_resource_name *)

Returned(v) == [kind |-> "return", val |-> v]
Raised(e) == [kind |-> "raise", exc |-> e]

\* _search_for_package_and_resource: the pair, or the ValueError of unpacking
\* one value into two names.
_search_for_package_and_resource(path, packages_path) ==
    LET relative_package_path == Replace(path, packages_path \o <<"/">>, <<>>)
        parts == SplitFirst(relative_package_path)
    IN  IF Len(parts) < 2 THEN Raised("ValueError")
        ELSE Returned(<<Replace(parts[1], SUBLIME_PACKAGE, <<>>), parts[2]>>)

\* One "if path.startswith(packages_path): package, asset = ..." of the
\* absolute branch; an exception raised earlier has already left the function.
SearchUnderRoot(pf, sofar, path, root) ==
    LET packages_path == _normalize_to_sublime_path(pf, root)
    IN  IF sofar.kind = "raise" THEN sofar
        ELSE IF StartsWith(path, packages_path)
             THEN _search_for_package_and_resource(path, packages_path)
             ELSE sofar

\* re.sub(r"^Packages/", "", path)
StripPackagesPrefix(path) ==
    IF StartsWith(path, PACKAGES \o <<"/">>) THEN DropFirst(path, Len(PACKAGES) + 1) ELSE path

get_package_and_resource_name(pf, ver, rawpath) ==
    LET path == _normalize_to_sublime_path(pf, rawpath)
    IN  IF IsAbs(pf, path)
        THEN LET r1 == SearchUnderRoot(pf, Returned(<<NoneVal, NoneVal>>), path, PackagesPath(pf))
                 r2 == SearchUnderRoot(pf, r1, path, InstalledPackagesPath(pf))
                 r3 == SearchUnderRoot(pf, r2, path, ExecutablePackagesPath(pf))
             IN  IF ver >= 3006 THEN r3 ELSE r1
        ELSE LET split == SplitFirst(StripPackagesPrefix(path))
             IN  IF Len(split) < 2 THEN Raised("IndexError")
                 ELSE Returned(<<split[1], split[2]>>)

----------------------------------------------------------------------------
(* States before any call, and the calls of the path codec *)

NoDir == [exists |-> FALSE, files |-> {}]
NoZip == [exists |-> FALSE, names |-> <<>>]
NoEntries == [pk |-> {}, inst |-> {}, sys |-> {}]

\* No call made yet.  The calls share no state and change none of the host's,
\* so a behaviour is one call on one state of the host.
Idle == call = [op |-> "none"] /\ ret = [kind |-> "none"]

Host == <<platform, VERSION, pkgDir, instZip, sysZip, walkOrder, rootEntries, ignoredPackages>>

\* The longest path string handed to _normalize_to_sublime_path.
MaxPathLen == 3

PathChars == {"a", "C", ":", "/", "\\", "."}

PathStrings == UNION {[1..n -> PathChars] : n \in 0..MaxPathLen}

InitNorm ==
    /\ platform \in Platforms
    /\ VERSION \in Versions
    /\ pkgDir = NoDir /\ instZip = NoZip /\ sysZip = NoZip
    /\ walkOrder = <<>>
    /\ rootEntries = NoEntries
    /\ ignoredPackages = <<>>
    /\ Idle

NormalizeCall ==
    /\ Idle
    /\ \E p \in PathStrings :
        /\ call' = [op |-> "_normalize_to_sublime_path", path |-> p]
        /\ ret' = Returned(_normalize_to_sublime_path(platform, p))
        /\ UNCHANGED Host

NextNorm == NormalizeCall

SpecNorm == InitNorm /\ [][NextNorm]_vars

\* Where the path handed to get_package_and_resource_name lies.
SplitBases == {"packages", "installed", "system", "relative", "elsewhere"}

BaseString(pf, base) ==
    CASE base = "packages" -> PackagesPath(pf)
      [] base = "installed" -> InstalledPackagesPath(pf)
      [] base = "system" -> ExecutablePackagesPath(pf)
      [] base = "relative" -> PACKAGES
      [] OTHER -> <<"/", "z">>

SplitPackageNames == {<<"A">>, <<"x">> \o SUBLIME_PACKAGE \o <<"s">>}

\* No resource, a plain one, a nested one, and one with a directory named as
\* the packages root is.
SplitResources ==
    {<<>>, <<<<"x">>>>, <<<<"n">>, <<"x">>>>, <<<<"d">>, PACKAGES, <<"x">>>>}

\* base + c + <package or archive name> + c + <resource>, c the separator the
\* caller writes.
SplitInput(pf, base, c, package, resource) ==
    LET first == IF base \in {"installed", "system"} THEN package \o SUBLIME_PACKAGE ELSE package
    IN  BaseString(pf, base) \o <<c>> \o JoinWith(<<first>> \o resource, c)

SplitCall ==
    /\ Idle
    /\ \E base \in SplitBases, c \in {"/", "\\"}, package \in SplitPackageNames,
       resource \in SplitResources :
        /\ call' = [op |-> "get_package_and_resource_name", base |-> base, style |-> c,
                    package |-> package, resource |-> resource,
                    path |-> SplitInput(platform, base, c, package, resource)]
        /\ ret' = get_package_and_resource_name(platform, VERSION,
                                            SplitInput(platform, base, c, package, resource))
        /\ UNCHANGED Host

NextSplit == SplitCall

SpecSplit == InitNorm /\ [][NextSplit]_vars

----------------------------------------------------------------------------
(* get_packages_list *)

Range(f) == {f[i] : i \in DOMAIN f}

\* sorted(): insertion into an ascending list, equal strings adjacent.
RECURSIVE InsertSorted(_, _)
InsertSorted(x, sorted) ==
    IF sorted = <<>> THEN <<x>>
    ELSE IF StrLess(Head(sorted), x) THEN <<Head(sorted)>> \o InsertSorted(x, Tail(sorted))
    ELSE <<x>> \o sorted

RECURSIVE SortList(_)
SortList(list) == IF list = <<>> THEN <<>> ELSE InsertSorted(Head(list), SortList(Tail(list)))

\* list(a_set): the elements in some order; sorted() makes the order immaterial.
RECURSIVE ListOf(_)
ListOf(set) ==
    IF set = {} THEN <<>>
    ELSE LET x == CHOOSE y \in set : TRUE IN <<x>> \o ListOf(set \ {x})

\* _get_packages_from_directory: the entries that end with file_ext, with
\* file_ext replaced by nothing.
_get_packages_from_directory(entries, file_ext) ==
    {Replace(e, file_ext, <<>>) : e \in {x \in entries : EndsWith(x, file_ext)}}

\* for ignored in ignored_package_list: package_set.discard(ignored)
DiscardIgnored(package_set, ignored_package_list) == package_set \ Range(ignored_package_list)

\* The ignore-list applied to the unpacked packages only, before the archives
\* are added.
get_packages_list_ignoring_early(ver, entries, ignored_package_list, ignore_packages) ==
    LET unpacked == _get_packages_from_directory(entries.pk, <<>>)
        kept == IF ignore_packages THEN DiscardIgnored(unpacked, ignored_package_list) ELSE unpacked
        archived == IF ver >= 3006
                    THEN _get_packages_from_directory(entries.inst, SUBLIME_PACKAGE)
                         \cup _get_packages_from_directory(entries.sys, SUBLIME_PACKAGE)
                    ELSE {}
    IN  SortList(ListOf(kept \cup archived))

get_packages_list(ver, entries, ignored_package_list, ignore_packages) ==
    LET unpacked == _get_packages_from_directory(entries.pk, <<>>)
        archived == IF ver >= 3006
                    THEN _get_packages_from_directory(entries.inst, SUBLIME_PACKAGE)
                         \cup _get_packages_from_directory(entries.sys, SUBLIME_PACKAGE)
                    ELSE {}
        package_set == unpacked \cup archived
    IN  SortList(ListOf(IF ignore_packages
                        THEN DiscardIgnored(package_set, ignored_package_list)
                        ELSE package_set))

\* The names of the packages the roots may hold.
PackageNames == {<<"A">>, <<"B">>}

\* What a root may list: the unpacked root its directories, an archive root
\* its archives and a file that is no archive.
UnpackedEntries == PackageNames
ArchiveEntries == {n \o SUBLIME_PACKAGE : n \in PackageNames} \cup {<<"A">>}

\* The longest "ignored_packages" setting.
MaxIgnored == 2

IgnoredLists == UNION {[1..n -> PackageNames] : n \in 0..MaxIgnored}

InitPkgs ==
    /\ platform \in Platforms
    /\ VERSION \in Versions
    /\ pkgDir = NoDir /\ instZip = NoZip /\ sysZip = NoZip
    /\ walkOrder = <<>>
    /\ rootEntries \in [pk : SUBSET UnpackedEntries, inst : SUBSET ArchiveEntries,
                        sys : SUBSET ArchiveEntries]
    /\ ignoredPackages \in IgnoredLists
    /\ Idle

GetPackagesListCall ==
    /\ Idle
    /\ \E ignore_packages \in BOOLEAN :
        /\ call' = [op |-> "get_packages_list", ignore_packages |-> ignore_packages]
        /\ ret' = Returned(get_packages_list(VERSION, rootEntries, ignoredPackages, ignore_packages))
        /\ UNCHANGED Host

NextPkgs == GetPackagesListCall

SpecPkgs == InitPkgs /\ [][NextPkgs]_vars

\* C8: get_packages_list(ignore_packages=True) returns a sorted list without
\* duplicates that holds no name of the "ignored_packages" setting, whichever
\* roots hold a package of that name.
C8_IgnoredExcluded ==
    (call.op = "get_packages_list" /\ call.ignore_packages)
        => /\ \A i \in 1..(Len(ret.val) - 1) : StrLess(ret.val[i], ret.val[i + 1])
           /\ \A i \in 1..Len(ret.val) : ret.val[i] \notin Range(ignoredPackages)

\* An ignored package present unpacked and in both archive roots, with the
\* archive tiers read, and another package listed.
C8_Witness ==
    /\ call.op = "get_packages_list" /\ call.ignore_packages
    /\ VERSION >= 3006
    /\ <<"A">> \in Range(ignoredPackages)
    /\ <<"A">> \in rootEntries.pk
    /\ <<"A">> \o SUBLIME_PACKAGE \in rootEntries.inst
    /\ <<"A">> \o SUBLIME_PACKAGE \in rootEntries.sys
    /\ ret.val = <<<<"B">>>>

----------------------------------------------------------------------------
(* The files of a package: its unpacked directory is the set of its files,   *)
(* each the sequence of its path segments; an archive is its list of names.  *)

IsPrefix(p, f) == Len(p) <= Len(f) /\ SubSeq(f, 1, Len(p)) = p

\* os.path.isdir of a path below the package directory: the directory itself,
\* or one some file lies under.
IsDirIn(files, prefix) == prefix = <<>> \/ \E f \in files : IsPrefix(prefix, f) /\ Len(f) > Len(prefix)

\* The names os.walk reports for one directory: its files, and its
\* sub-directories in the order the host lists them.
FilenamesIn(files, prefix) ==
    {f[Len(f)] : f \in {g \in files : IsPrefix(prefix, g) /\ Len(g) = Len(prefix) + 1}}

DirectoriesIn(files, prefix, order) ==
    LET names == {f[Len(prefix) + 1] : f \in {g \in files : IsPrefix(prefix, g) /\ Len(g) > Len(prefix) + 1}}
    IN  SelectSeq(order, LAMBDA d : d \in names)

\* for directory in directories: if directory in ignored_directories:
\*     directories.remove(directory)
\* The list iterator moves on by index, i counted from 1, over the list as it
\* is after each removal.
RECURSIVE RemoveIgnored(_, _, _)
RemoveIgnored(directories, i, ignored_directories) ==
    IF i > Len(directories) THEN directories
    ELSE IF directories[i] \in Range(ignored_directories)
         THEN RemoveIgnored(SubSeq(directories, 1, i - 1) \o DropFirst(directories, i),
                            i + 1, ignored_directories)
         ELSE RemoveIgnored(directories, i + 1, ignored_directories)

\* The file_list of the walk: os.path.join(temp, filename) for every file of
\* every directory os.walk goes into, top down.
RECURSIVE WalkFiles(_, _, _, _, _)
WalkFiles(pf, files, prefix, order, ignored_directories) ==
    LET directories == RemoveIgnored(DirectoriesIn(files, prefix, order), 1, ignored_directories)
        here == {JoinWith(prefix \o <<n>>, Sep(pf)) : n \in FilenamesIn(files, prefix)}
    IN  here \cup UNION {WalkFiles(pf, files, Append(prefix, directories[i]), order,
                                   ignored_directories) : i \in 1..Len(directories)}

\* re.compile(pattern).search(s), for patterns of literal characters and ".".
RegexSearch(pattern, s) ==
    \E j \in 1..(Len(s) - Len(pattern) + 1) :
        \A k \in 1..Len(pattern) : pattern[k] = "." \/ pattern[k] = s[j + k - 1]

IsIgnored(filename, ignored_directories) ==
    \E i \in 1..Len(ignored_directories) :
        RegexSearch(ignored_directories[i] \o <<"/">>, filename)

\* The names of the archive, or none when there is no archive.
_list_files_in_zip(zip) == IF zip.exists THEN Range(zip.names) ELSE {}

\* The loop over file_set: one normalized name for every name that is kept.
RECURSIVE NormalizedList(_, _)
NormalizedList(pf, file_set) ==
    IF file_set = {} THEN <<>>
    ELSE LET filename == CHOOSE f \in file_set : TRUE
         IN  <<_normalize_to_sublime_path(pf, filename)>> \o NormalizedList(pf, file_set \ {filename})

list_package_files(pf, ver, dir, inst, sys, order, ignored_directories) ==
    LET walked == IF dir.exists THEN WalkFiles(pf, dir.files, <<>>, order, ignored_directories) ELSE {}
        zipped == IF ver >= 3006 THEN _list_files_in_zip(inst) \cup _list_files_in_zip(sys) ELSE {}
        file_set == walked \cup zipped
        kept == {f \in file_set : ~IsIgnored(f, ignored_directories)}
    IN  SortList(NormalizedList(pf, kept))

\* The files a package may hold, for the listing.
ListPaths ==
    {<<<<"x">>>>, <<<<"a">>, <<"x">>>>, <<<<"b">>, <<"x">>>>, <<<<"a", "b">>, <<"x">>>>,
     <<<<"a">>, <<"b">>, <<"x">>>>}

ListDirNames == {<<"a">>, <<"b">>, <<"a", "b">>}

\* The directory names a caller may ignore; ".b" is a name whose pattern
\* matches other names too.
IgnorableNames == <<<<"a">>, <<"b">>, <<".", "b">>>>

\* The number of files in the unpacked directory, and of names in an archive.
MaxFiles == 2
MaxEntries == 2

ListingOrders(set) ==
    {q \in [1..Cardinality(set) -> set] : \A i, j \in 1..Cardinality(set) : i # j => q[i] # q[j]}

\* The name of an archive entry: forward slashes, whatever the platform.
EntryName(path) == JoinWith(path, "/")

Directories(paths, max) ==
    {NoDir} \cup {[exists |-> TRUE, files |-> fs] : fs \in {s \in SUBSET paths : Cardinality(s) <= max}}

Archives(paths, max) ==
    {NoZip} \cup {[exists |-> TRUE, names |-> ns] :
                    ns \in UNION {{q \in [1..n -> {EntryName(x) : x \in paths}] :
                                     \A i, j \in 1..n : i # j => q[i] # q[j]} : n \in 0..max}}

\* ignored_directories: the names of IgnorableNames the caller chose, in order.
IgnoredChoices == {SelectSeq(IgnorableNames, LAMBDA n : n \in chosen) : chosen \in SUBSET Range(IgnorableNames)}

InitList ==
    /\ platform \in Platforms
    /\ VERSION \in Versions
    /\ pkgDir \in Directories(ListPaths, MaxFiles)
    /\ instZip \in Archives(ListPaths, 1)
    /\ sysZip \in Archives(ListPaths, 1)
    /\ walkOrder \in ListingOrders(ListDirNames)
    /\ rootEntries = NoEntries
    /\ ignoredPackages = <<>>
    /\ Idle

ListPackageFilesCall ==
    /\ Idle
    /\ \E ignored_directories \in IgnoredChoices :
        /\ call' = [op |-> "list_package_files", ignored_directories |-> ignored_directories]
        /\ ret' = Returned(list_package_files(platform, VERSION, pkgDir, instZip, sysZip,
                                            walkOrder, ignored_directories))
        /\ UNCHANGED Host

NextList == ListPackageFilesCall

SpecList == InitList /\ [][NextList]_vars

----------------------------------------------------------------------------
(* get_package_resource *)

\* What a lookup returns: None, or the path, the text or the bytes of the file
\* or archive entry `name` of tier "dir", "inst" or "sys".  The content of a
\* file is told by the tier and the name it is stored under.
ResNone == [type |-> "None"]
Found(type, tier, name) == [type |-> type, tier |-> tier, name |-> name]

\* The package every lookup and listing names.
PACKAGE_NAME == <<"A">>

\* os.path.exists of a path below the package directory.
ExistsIn(dir, path) == dir.exists /\ (path \in dir.files \/ IsDirIn(dir.files, path))

\* The loop of _find_file over os.walk(abs_dir), top down: the first
\* directory that has a file named file_name.
RECURSIVE FindInWalk(_, _, _, _)
FindInWalk(files, root, order, file_name) ==
    IF file_name \in FilenamesIn(files, root) THEN Append(root, file_name)
    ELSE LET dirnames == DirectoriesIn(files, root, order)
             found == [i \in 1..Len(dirnames) |->
                          FindInWalk(files, Append(root, dirnames[i]), order, file_name)]
             hits == {i \in 1..Len(dirnames) : found[i] # NoneVal}
         IN  IF hits = {} THEN NoneVal
             ELSE found[CHOOSE i \in hits : \A j \in hits : i <= j]

\* _find_file: os.walk of a path that is no directory yields nothing.
_find_file(files, order, resource) ==
    LET abs_dir == SubSeq(resource, 1, Len(resource) - 1)
        file_name == resource[Len(resource)]
    IN  IF IsDirIn(files, abs_dir) THEN FindInWalk(files, abs_dir, order, file_name)
        ELSE NoneVal

\* Lines 71-83: return the path, or open it and read it; opening a directory
\* raises.
ReadUnpacked(dir, path, get_path, return_binary) ==
    IF get_path THEN Returned(Found("path", "dir", EntryName(path)))
    ELSE IF path \notin dir.files THEN Raised("IOError")
    ELSE Returned(Found(IF return_binary THEN "bytes" ELSE "text", "dir", EntryName(path)))

\* With recursive_search the first name that ends with file_name stands for it.
_search_zip_for_file(tier, zip, file_name, get_path, recursive_search, return_binary) ==
    IF ~zip.exists THEN ResNone
    ELSE LET namelist == zip.names
             indices == {i \in 1..Len(namelist) : EndsWith(namelist[i], file_name)}
             resolved == IF recursive_search /\ indices # {}
                         THEN namelist[CHOOSE i \in indices : \A j \in indices : i <= j]
                         ELSE file_name
         IN  IF resolved \notin Range(namelist) THEN ResNone
             ELSE IF get_path THEN Found("path", tier, resolved)
             ELSE Found(IF return_binary THEN "bytes" ELSE "text", tier, resolved)

\* sublime.load_resource: the host's own lookup of "Packages/<package>/<path>",
\* which raises IOError for any name it does not hold.
load_resource(name, dir, inst, sys) ==
    LET prefix == PACKAGES \o <<"/">> \o PACKAGE_NAME \o <<"/">>
        path == DropFirst(name, Len(prefix))
    IN  IF ~StartsWith(name, prefix) THEN Raised("IOError")
        ELSE IF dir.exists /\ path \in {EntryName(f) : f \in dir.files}
             THEN Returned(Found("text", "dir", path))
        ELSE IF path \in _list_files_in_zip(inst) THEN Returned(Found("text", "inst", path))
        ELSE IF path \in _list_files_in_zip(sys) THEN Returned(Found("text", "sys", path))
        ELSE Raised("IOError")

\* Lines 85-100: the installed archive, then the archive beside the executable.
SearchArchives(ver, inst, sys, file_name, get_path, recursive_search, return_binary) ==
    LET fromInst == _search_zip_for_file("inst", inst, file_name, get_path, recursive_search, return_binary)
        fromSys == _search_zip_for_file("sys", sys, file_name, get_path, recursive_search, return_binary)
    IN  IF ver < 3006 THEN ResNone
        ELSE IF fromInst # ResNone THEN fromInst
        ELSE fromSys

\* The archives asked before the unpacked directory.
get_package_resource_archives_first(ver, dir, inst, sys, order, resource, get_path, recursive_search, return_binary) ==
    LET archived == SearchArchives(ver, inst, sys, EntryName(resource), get_path, recursive_search, return_binary)
        path == IF ~dir.exists THEN NoneVal
                ELSE IF recursive_search THEN _find_file(dir.files, order, resource)
                ELSE IF ExistsIn(dir, resource) THEN resource
                ELSE NoneVal
    IN  IF ver > 3013 THEN Returned(ResNone)
        ELSE IF archived # ResNone THEN Returned(archived)
        ELSE IF path # NoneVal THEN ReadUnpacked(dir, path, get_path, return_binary)
        ELSE Returned(ResNone)

get_package_resource(ver, dir, inst, sys, order, resource, get_path, recursive_search, return_binary) ==
    LET loaded == load_resource(<<"P", "a", "c", "k", "a", "g", "e", "/">> \o PACKAGE_NAME
                                   \o <<"/">> \o EntryName(resource), dir, inst, sys)
        path == IF ~dir.exists THEN NoneVal
                ELSE IF recursive_search THEN _find_file(dir.files, order, resource)
                ELSE IF ExistsIn(dir, resource) THEN resource
                ELSE NoneVal
    IN  IF ver > 3013
        THEN IF loaded.kind = "raise" THEN Returned(ResNone) ELSE loaded
        ELSE IF path # NoneVal /\ ExistsIn(dir, path)
             THEN ReadUnpacked(dir, path, get_path, return_binary)
             ELSE Returned(SearchArchives(ver, inst, sys, EntryName(resource), get_path,
                                          recursive_search, return_binary))

\* The files a package may hold, for the lookup.
ResourcePaths ==
    {<<<<"x">>>>, <<<<"s">>, <<"x">>>>, <<<<"t">>, <<"x">>>>, <<<<"s">>, <<"t">>, <<"x">>>>}

\* What a caller may ask for: a file, or a directory of the package.
ResourceRequests == ResourcePaths \cup {<<<<"s">>>>, <<<<"s">>, <<"t">>>>}

ResourceDirNames == {<<"s">>, <<"t">>}

InitRes ==
    /\ platform \in Platforms
    /\ VERSION \in Versions
    /\ pkgDir \in Directories(ResourcePaths, MaxFiles)
    /\ instZip \in Archives(ResourcePaths, MaxEntries)
    /\ sysZip \in Archives(ResourcePaths, 1)
    /\ walkOrder \in ListingOrders(ResourceDirNames)
    /\ rootEntries = NoEntries
    /\ ignoredPackages = <<>>
    /\ Idle

GetPackageResourceCall ==
    /\ Idle
    /\ \E resource \in ResourceRequests, get_path \in BOOLEAN, recursive_search \in BOOLEAN,
       return_binary \in BOOLEAN :
        /\ call' = [op |-> "get_package_resource", resource |-> resource,
                    get_path |-> get_path, recursive_search |-> recursive_search,
                    return_binary |-> return_binary]
        /\ ret' = get_package_resource(VERSION, pkgDir, instZip, sysZip, walkOrder, resource,
                                     get_path, recursive_search, return_binary)
        /\ UNCHANGED Host

NextRes == GetPackageResourceCall

SpecRes == InitRes /\ [][NextRes]_vars

----------------------------------------------------------------------------
(* Claims about get_package_resource *)

IsLookup == call.op = "get_package_resource"

\* The tiers a manual lookup reads, as <<tier, name>> pairs.
TierEntries ==
    (IF pkgDir.exists THEN {<<"dir", EntryName(f)>> : f \in pkgDir.files} ELSE {})
    \cup (IF VERSION >= 3006
          THEN {<<"inst", n>> : n \in _list_files_in_zip(instZip)}
               \cup {<<"sys", n>> : n \in _list_files_in_zip(sysZip)}
          ELSE {})

\* The names of the package's files, in whichever representation.
AllNames ==
    (IF pkgDir.exists THEN {EntryName(f) : f \in pkgDir.files} ELSE {})
    \cup _list_files_in_zip(instZip) \cup _list_files_in_zip(sysZip)

\* A file named as the resource's last segment lies in or below the directory
\* the resource's other segments name.
MatchedByWalk ==
    /\ pkgDir.exists
    /\ \E f \in pkgDir.files :
          /\ IsPrefix(SubSeq(call.resource, 1, Len(call.resource) - 1), f)
          /\ f[Len(f)] = call.resource[Len(call.resource)]

PackageExists == pkgDir.exists \/ instZip.exists \/ sysZip.exists

\* C1: on the manual path, not recursive, content asked for: a resource that
\* is both in the unpacked directory and in an archive is returned with the
\* content of the unpacked file, never the archive entry's.
C1_DirectoryWins ==
    (/\ IsLookup /\ VERSION <= 3013
     /\ ~call.recursive_search /\ ~call.get_path
     /\ pkgDir.exists /\ call.resource \in pkgDir.files
     /\ EntryName(call.resource) \in _list_files_in_zip(instZip) \cup _list_files_in_zip(sysZip))
        => ret = Returned(Found(IF call.return_binary THEN "bytes" ELSE "text", "dir",
                                EntryName(call.resource)))

\* The resource is in the unpacked directory and in both archives of a host
\* that reads archives, and the unpacked one came back as text.
C1_Witness ==
    /\ IsLookup /\ VERSION = 3013
    /\ ~call.recursive_search /\ ~call.get_path /\ ~call.return_binary
    /\ pkgDir.exists /\ call.resource \in pkgDir.files
    /\ EntryName(call.resource) \in _list_files_in_zip(instZip)
    /\ EntryName(call.resource) \in _list_files_in_zip(sysZip)
    /\ ret = Returned(Found("text", "dir", EntryName(call.resource)))

\* C2: for a package that exists and a resource none of its representations
\* holds (no file or entry is named as the resource or ends with its name, and
\* no file a recursive search would match),
\* get_package_resource returns None and raises nothing, whatever get_path,
\* recursive_search and return_binary are, on the delegated and the manual path.
C2_MissReturnsNone ==
    (/\ IsLookup /\ PackageExists
     /\ \A n \in AllNames : ~EndsWith(n, EntryName(call.resource))
     /\ ~MatchedByWalk)
        => ret = Returned(ResNone)

\* C7: with recursive_search, what get_package_resource resolves to has a name,
\* relative to the package, that ends with the requested path; and on the
\* manual path, when exactly one file or entry has such a name, it is the one
\* returned.
C7_RecursiveSuffix ==
    (IsLookup /\ call.recursive_search)
        => /\ (ret.kind = "return" /\ ret.val # ResNone)
                 => EndsWith(ret.val.name, EntryName(call.resource))
           /\ \A e \in TierEntries :
                 (/\ VERSION <= 3013
                  /\ {m \in TierEntries : EndsWith(m[2], EntryName(call.resource))} = {e})
                     => /\ ret.kind = "return" /\ ret.val # ResNone
                        /\ ret.val.tier = e[1] /\ ret.val.name = e[2]

----------------------------------------------------------------------------
(* Claims about list_package_files *)

IsList == call.op = "list_package_files"

\* The directory segments of a canonical path: all its segments but the last.
DirSegments(path) ==
    LET segs == SplitOn(path, "/") IN {segs[i] : i \in 1..(Len(segs) - 1)}

\* The files list_package_files reads: those of the unpacked directory and,
\* where the host has archives, the entries of both archives, as canonical paths.
PackageFileNames ==
    (IF pkgDir.exists THEN {EntryName(f) : f \in pkgDir.files} ELSE {})
    \cup (IF VERSION >= 3006 THEN _list_files_in_zip(instZip) \cup _list_files_in_zip(sysZip) ELSE {})

\* C4: no path list_package_files returns has a directory segment equal to an
\* ignored name, also when several ignored directories are siblings.
C4_NoIgnoredSegment ==
    IsList => \A i \in 1..Len(ret.val) :
                 DirSegments(ret.val[i]) \cap Range(call.ignored_directories) = {}

\* C5: the list list_package_files returns is ascending and holds no canonical
\* path twice, also when a file is visible in more than one source.
C5_SortedNoDuplicates ==
    IsList => \A i \in 1..(Len(ret.val) - 1) : StrLess(ret.val[i], ret.val[i + 1])

\* C10: every file of the package whose path has no directory segment equal to
\* an ignored name is in the list list_package_files returns.
C10_OnlyIgnoredDropped ==
    IsList => \A f \in PackageFileNames :
                 DirSegments(f) \cap Range(call.ignored_directories) = {}
                     => f \in Range(ret.val)

----------------------------------------------------------------------------
(* Claims about the path codec *)

IsSplit == call.op = "get_package_and_resource_name"

KnownBase == call.base \in {"packages", "installed", "system", "relative"}

\* C3: for every package name P and every non-empty canonical resource path R,
\* get_package_and_resource_name returns exactly (P, R) for the path of R under
\* each of the three roots and for "Packages/P/R", with either separator.
C3_RoundTrip ==
    (/\ IsSplit /\ KnownBase /\ call.resource # <<>>
     /\ (VERSION >= 3006 \/ call.base \in {"packages", "relative"}))
        => ret = Returned(<<call.package, JoinWith(call.resource, "/")>>)

\* C6: canonicalization is idempotent: normalizing the result of
\* _normalize_to_sublime_path again gives the same string.
C6_Idempotent ==
    (call.op = "_normalize_to_sublime_path")
        => _normalize_to_sublime_path(platform, ret.val) = ret.val

\* C9: a path that is a known root followed by one segment returns
\* (package name, None), the archive extension stripped, without raising.
C9_RootPlusOneSegment ==
    (/\ IsSplit /\ call.resource = <<>> /\ call.package = <<"A">>
     /\ \/ call.base = "packages"
        \/ (call.base \in {"installed", "system"} /\ VERSION >= 3006))
        => ret = Returned(<<call.package, NoneVal>>)

============================================================================
